---- MODULE Spec2Model ----
(***************************************************************************)
(* glass_pumpkin: the modular-arithmetic and random-sampling layer          *)
(* (src/compat.rs), the bounded random iterator (src/rand.rs) and the       *)
(* safe-prime front door (src/safe_prime.rs).                               *)
(*                                                                          *)
(* UInt<N> is modelled as the integers 0 .. 2^Bits - 1.  A client starts at *)
(* pc = "idle" and makes one call; each function of the library is an       *)
(* action (modpow additionally exposes the iterations of its loop).         *)
(***************************************************************************)
EXTENDS Integers, Sequences, FiniteSets

\* ------------------------------------------------------------------ bounds
\* Width in bits of the fixed-width integer UInt<N>.
Bits == 4
\* Width in bits of the machine word usize (only "wider than UInt" matters).
UsizeBits == 8
\* gen_biguint_bits is called with bit_size in 0 .. Bits + MaxExtraBits.
MaxExtraBits == 2
\* Randoms: limits and overrides are drawn from 0 .. MaxLimit.
MaxLimit == 3
\* Randoms: amount is drawn from 0 .. MaxAmount.
MaxAmount == 3
\* Randoms: at most MaxAppends calls of with_appended.
MaxAppends == 2
\* safe_prime::new is called with bit_length in 0 .. MaxBitLength.
MaxBitLength == 130

\* ------------------------------------------------------- program constants
\* crate::common::MIN_BIT_LENGTH ("the bit_length MUST be at least 128-bits").
MIN_BIT_LENGTH == 128

VARIABLES
    pc,         \* position of the client: idle, modpow_loop, randoms, done, panicked
    mp,         \* frame of modpow: x, e, m, this_power, result, bit_index, ret
    gen,        \* frame of gen_biguint_range / gen_biguint_bits and its outcome
    rands,      \* the Randoms struct: appended, lower_limit, upper_limit, amount
    hist,       \* what the client observed of the Randoms iterator
    sp,         \* frame and outcome of safe_prime::new
    rng_reads   \* number of draws taken from the random source

vars == <<pc, mp, gen, rands, hist, sp, rng_reads>>

\* ------------------------------------------------- the integer primitives
RECURSIVE Pow2(_)
Pow2(n) == IF n = 0 THEN 1 ELSE 2 * Pow2(n - 1)

\* UInt::MAX, and the value sets UInt<N> and NonZero<UInt<N>>.
UIntMax == Pow2(Bits) - 1
UInt == 0 .. UIntMax
NonZero == 1 .. UIntMax
\* usize::MAX.
UsizeMax == Pow2(UsizeBits) - 1

\* Option<T>.
None == <<>>
Some(v) == <<v>>

\* UInt::bits: the bit length of v (0 for 0).
RECURSIVE bits(_)
bits(v) == IF v = 0 THEN 0 ELSE 1 + bits(v \div 2)

\* UInt << n: bits shifted past the width are lost; a shift by the width or
\* more yields zero.
shl(v, n) == IF n >= Bits THEN 0 ELSE (v * Pow2(n)) % Pow2(Bits)

\* UInt >> n.
shr(v, n) == IF n >= Bits THEN 0 ELSE v \div Pow2(n)

\* UInt::is_odd.
is_odd(v) == v % 2 = 1

\* UInt | UInt.
RECURSIVE bitor(_, _)
bitor(a, b) ==
    IF a = 0 THEN b
    ELSE IF b = 0 THEN a
    ELSE (IF a % 2 = 1 \/ b % 2 = 1 THEN 1 ELSE 0) + 2 * bitor(a \div 2, b \div 2)

\* UInt::mul_wide: the exact product as the pair (lo, hi).
mul_wide(a, b) == <<(a * b) % Pow2(Bits), (a * b) \div Pow2(Bits)>>

\* hi.concat(&lo): the double-width value with hi as the most significant half.
concat(hi, lo) == hi * Pow2(Bits) + lo

\* wide.split(): the pair (hi, lo).
split(w) == <<w \div Pow2(Bits), w % Pow2(Bits)>>

\* a.rem(&n), n non-zero.
rem(a, n) == a % n

\* UInt::saturating_sub and UInt::saturating_add.
saturating_sub(a, b) == IF a >= b THEN a - b ELSE 0
saturating_add(a, b) == IF a + b > UIntMax THEN UIntMax ELSE a + b

\* NonZero::new(v).into(): None for zero.
NonZeroNew(v) == IF v = 0 THEN None ELSE Some(v)

\* UInt::random_mod(rng, &n): the values the draw can take, [0, n).
random_mod(n) == 0 .. (n - 1)

\* ------------------------------------------------------------- compat.rs
promote_nz(n) == concat(0, n)

\* A plausible slip: the product is reduced at single width (its high half
\* is dropped before the remainder is taken).
mul_mod_truncating(a, b, n) == rem(mul_wide(a, b)[1], n)

mul_mod(a, b, n) ==
    LET p      == mul_wide(a, b)
        wide   == concat(p[2], p[1])
        m_wide == promote_nz(n)
        r      == rem(wide, m_wide)
    IN  split(r)[2]

is_bit_set(v, i) == IF i >= bits(v) THEN FALSE ELSE is_odd(shr(v, i))

NoFrame == [x |-> 0, e |-> 0, m |-> 1, this_power |-> 0, result |-> 0,
            bit_index |-> 0, ret |-> None]

\* modpow, up to the loop: the two early returns, or the initialisation of
\* this_power and result.
modpow_entry(x, e, m) ==
    IF x = 0 THEN
        [NoFrame EXCEPT !.x = x, !.e = e, !.m = m, !.ret = Some(x)]
    ELSE IF e = 0 THEN
        [NoFrame EXCEPT !.x = x, !.e = e, !.m = m, !.ret = Some(1)]
    ELSE
        [NoFrame EXCEPT !.x = x, !.e = e, !.m = m,
                        !.this_power = rem(x, m), !.result = 1]

\* A plausible slip: the exponent is scanned from its most significant bit.
modpow_body_msb_first(f) ==
    LET res == IF is_bit_set(f.e, bits(f.e) - 1 - f.bit_index)
               THEN mul_mod(f.result, f.this_power, f.m)
               ELSE f.result
    IN  [f EXCEPT !.result = res,
                  !.this_power = mul_mod(f.this_power, f.this_power, f.m),
                  !.bit_index = f.bit_index + 1]

\* One iteration of `for bit_index in 0..e.bits()`.
modpow_body(f) ==
    LET res == IF is_bit_set(f.e, f.bit_index)
               THEN mul_mod(f.result, f.this_power, f.m)
               ELSE f.result
    IN  [f EXCEPT !.result = res,
                  !.this_power = mul_mod(f.this_power, f.this_power, f.m),
                  !.bit_index = f.bit_index + 1]

modpow ==
    /\ pc = "idle"
    /\ \E x \in UInt, e \in UInt, m \in NonZero :
          /\ mp' = modpow_entry(x, e, m)
          /\ pc' = IF mp'.ret = None THEN "modpow_loop" ELSE "done"
    /\ UNCHANGED <<gen, rands, hist, sp, rng_reads>>

modpow_loop ==
    /\ pc = "modpow_loop"
    /\ mp.bit_index < bits(mp.e)
    /\ mp' = modpow_body(mp)
    /\ UNCHANGED <<pc, gen, rands, hist, sp, rng_reads>>

modpow_return ==
    /\ pc = "modpow_loop"
    /\ mp.bit_index >= bits(mp.e)
    /\ mp' = [mp EXCEPT !.ret = Some(mp.result)]
    /\ pc' = "done"
    /\ UNCHANGED <<gen, rands, hist, sp, rng_reads>>

\* ------------------------------------------------- the sampling primitives
\* The outcome of a sampling call: a panic, or a returned value together with
\* the draw it was computed from.
Panicked(msg) == [kind |-> "panic", msg |-> msg, val |-> 0, draw |-> 0, reads |-> 0]
Returned(v, d) == [kind |-> "ok", msg |-> "", val |-> v, draw |-> d, reads |-> 1]

\* A plausible slip: the draw is taken below high instead of below the span.
gen_biguint_range_unshifted(low, high) ==
    LET nz == NonZeroNew(saturating_sub(high, low))
    IN  IF nz = None
        THEN {Panicked("Zero range")}
        ELSE {Returned(saturating_add(d, low), d) : d \in random_mod(high)}

\* A plausible slip: an empty range is answered with low instead of a panic.
gen_biguint_range_lenient(low, high) ==
    LET nz == NonZeroNew(saturating_sub(high, low))
    IN  IF nz = None
        THEN {Returned(low, 0)}
        ELSE {Returned(saturating_add(d, low), d) : d \in random_mod(nz[1])}

\* gen_biguint_range(rng, low, high): the set of its possible outcomes.
gen_biguint_range(low, high) ==
    LET nz == NonZeroNew(saturating_sub(high, low))
    IN  IF nz = None
        THEN {Panicked("Zero range")}
        ELSE {Returned(saturating_add(d, low), d) : d \in random_mod(nz[1])}

\* bit_size - 1 on usize: with overflow checks (debug builds) 0 - 1 panics,
\* without them (release builds) it wraps to usize::MAX.
usize_sub1(n) == IF n = 0 THEN UsizeMax ELSE n - 1

\* A plausible slip: the top bit is not forced on.
gen_biguint_bits_unmasked(bit_size, overflow_checks) ==
    IF bit_size = 0 /\ overflow_checks
    THEN {Panicked("attempt to subtract with overflow")}
    ELSE LET mask == shl(1, usize_sub1(bit_size))
         IN  IF mask = 0
             THEN {Panicked("too many bits for type")}
             ELSE LET nz     == NonZeroNew(shl(mask, 1))
                      modulo == IF nz = None THEN UIntMax ELSE nz[1]
                  IN  {Returned(d, d) : d \in random_mod(modulo)}

\* gen_biguint_bits(rng, bit_size): the set of its possible outcomes.
gen_biguint_bits(bit_size, overflow_checks) ==
    IF bit_size = 0 /\ overflow_checks
    THEN {Panicked("attempt to subtract with overflow")}
    ELSE LET mask == shl(1, usize_sub1(bit_size))
         IN  IF mask = 0
             THEN {Panicked("too many bits for type")}
             ELSE LET nz     == NonZeroNew(shl(mask, 1))
                      modulo == IF nz = None THEN UIntMax ELSE nz[1]
                  IN  {Returned(bitor(d, mask), d) : d \in random_mod(modulo)}

NoGen == [op |-> "", low |-> 0, high |-> 0, bit_size |-> 0,
          overflow_checks |-> FALSE, out |-> Panicked("")]

call_gen_biguint_range ==
    /\ pc = "idle"
    /\ \E low \in UInt, high \in UInt :
          \E o \in gen_biguint_range(low, high) :
             /\ gen' = [NoGen EXCEPT !.op = "gen_biguint_range",
                                     !.low = low, !.high = high, !.out = o]
             /\ rng_reads' = rng_reads + o.reads
             /\ pc' = IF o.kind = "panic" THEN "panicked" ELSE "done"
    /\ UNCHANGED <<mp, rands, hist, sp>>

call_gen_biguint_bits ==
    /\ pc = "idle"
    /\ \E bit_size \in 0 .. (Bits + MaxExtraBits), overflow_checks \in BOOLEAN :
          \E o \in gen_biguint_bits(bit_size, overflow_checks) :
             /\ gen' = [NoGen EXCEPT !.op = "gen_biguint_bits",
                                     !.bit_size = bit_size,
                                     !.overflow_checks = overflow_checks,
                                     !.out = o]
             /\ rng_reads' = rng_reads + o.reads
             /\ pc' = IF o.kind = "panic" THEN "panicked" ELSE "done"
    /\ UNCHANGED <<mp, rands, hist, sp>>

\* ---------------------------------------------------------------- rand.rs
NoRandoms == [appended |-> None, lower_limit |-> 0, upper_limit |-> 0, amount |-> 0]

\* What the client saw: the amount given to new, the values yielded and where
\* each came from, the values passed to with_appended (and whether one was
\* passed after iteration began), and whether next returned None.
NoHist == [amount0 |-> 0, out |-> <<>>, src |-> <<>>, overrides |-> <<>>,
           late_append |-> FALSE, nexts |-> 0, none_seen |-> FALSE]

Randoms_new ==
    /\ pc = "idle"
    /\ \E lower_limit \in 0 .. MaxLimit, upper_limit \in 0 .. MaxLimit,
          amount \in 0 .. MaxAmount :
          /\ rands' = [appended |-> None, lower_limit |-> lower_limit,
                       upper_limit |-> upper_limit, amount |-> amount]
          /\ hist' = [NoHist EXCEPT !.amount0 = amount]
    /\ pc' = "randoms"
    /\ UNCHANGED <<mp, gen, sp, rng_reads>>

\* A plausible slip: an override already set is kept.
with_appended_keep_first ==
    /\ pc = "randoms"
    /\ Len(hist.overrides) < MaxAppends
    /\ \E x \in 0 .. MaxLimit :
          /\ rands' = [rands EXCEPT !.appended =
                          IF rands.appended = None THEN Some(x) ELSE rands.appended]
          /\ hist' = [hist EXCEPT !.overrides = Append(hist.overrides, x),
                                  !.late_append = hist.late_append \/ hist.nexts > 0]
    /\ UNCHANGED <<pc, mp, gen, sp, rng_reads>>

with_appended ==
    /\ pc = "randoms"
    /\ Len(hist.overrides) < MaxAppends
    /\ \E x \in 0 .. MaxLimit :
          /\ rands' = [rands EXCEPT !.appended = Some(x)]
          /\ hist' = [hist EXCEPT !.overrides = Append(hist.overrides, x),
                                  !.late_append = hist.late_append \/ hist.nexts > 0]
    /\ UNCHANGED <<pc, mp, gen, sp, rng_reads>>

\* Randoms::gen_biguint.
gen_biguint(r) == gen_biguint_range(r.lower_limit, r.upper_limit)

\* The effect of a next() that yields v, taken from `from`, after `taken`.
Yield(taken, v, from, reads) ==
    /\ rands' = taken
    /\ hist' = [hist EXCEPT !.out = Append(hist.out, v),
                            !.src = Append(hist.src, from),
                            !.nexts = 1]
    /\ rng_reads' = rng_reads + reads
    /\ pc' = "randoms"

\* The effect of a next() that panics inside gen_biguint, after `taken`.
Unwind(taken) ==
    /\ rands' = taken
    /\ hist' = [hist EXCEPT !.nexts = 1]
    /\ rng_reads' = rng_reads
    /\ pc' = "panicked"

\* A plausible slip: the last item does not decrement the remaining count.
next_no_decrement ==
    /\ pc = "randoms"
    /\ IF rands.amount = 0 THEN
          /\ hist' = [hist EXCEPT !.none_seen = TRUE, !.nexts = 1]
          /\ UNCHANGED <<pc, rands, rng_reads>>
       ELSE IF rands.amount = 1 THEN
          LET taken == [rands EXCEPT !.appended = None]
          IN  IF rands.appended # None
              THEN Yield(taken, rands.appended[1], "override", 0)
              ELSE \E o \in gen_biguint(taken) :
                      IF o.kind = "panic"
                      THEN Unwind(taken)
                      ELSE Yield(taken, o.val, "draw", o.reads)
       ELSE
          LET taken == [rands EXCEPT !.amount = rands.amount - 1]
          IN  \E o \in gen_biguint(taken) :
                 IF o.kind = "panic"
                 THEN Unwind(taken)
                 ELSE Yield(taken, o.val, "draw", o.reads)
    /\ UNCHANGED <<mp, gen, sp>>

\* Iterator::next for Randoms.
next ==
    /\ pc = "randoms"
    /\ IF rands.amount = 0 THEN
          /\ hist' = [hist EXCEPT !.none_seen = TRUE, !.nexts = 1]
          /\ UNCHANGED <<pc, rands, rng_reads>>
       ELSE IF rands.amount = 1 THEN
          LET taken == [rands EXCEPT !.appended = None]
          IN  IF rands.appended # None
              THEN Yield([taken EXCEPT !.amount = taken.amount - 1],
                         rands.appended[1], "override", 0)
              ELSE \E o \in gen_biguint(taken) :
                      IF o.kind = "panic"
                      THEN Unwind(taken)
                      ELSE Yield([taken EXCEPT !.amount = taken.amount - 1],
                                 o.val, "draw", o.reads)
       ELSE
          LET taken == [rands EXCEPT !.amount = rands.amount - 1]
          IN  \E o \in gen_biguint(taken) :
                 IF o.kind = "panic"
                 THEN Unwind(taken)
                 ELSE Yield(taken, o.val, "draw", o.reads)
    /\ UNCHANGED <<mp, gen, sp>>

\* ---------------------------------------------------------- safe_prime.rs
\* Result<N>.
Ok(v) == [tag |-> "Ok", kind |-> "", val |-> v]
Err(kind, v) == [tag |-> "Err", kind |-> kind, val |-> v]
NoResult == [tag |-> "", kind |-> "", val |-> 0]

\* common::gen_safe_prime (re-exported as from_rng): the results the search
\* can hand back.  A prime found is represented by its bit length.
from_rng(bit_length) ==
    {Ok(bit_length), Err("OsRngInitialization", 0), Err("BitLength", bit_length)}

\* The outcome of new: whether OsRng was created, whether and with what
\* result the search was called, and the value returned.
NewOutcome(rng, found, ret) ==
    [rng_created |-> rng, search_called |-> found # NoResult,
     search_result |-> found, ret |-> ret]

\* A plausible slip: the random source is created before the length is checked.
safe_prime_new_eager_rng(bit_length) ==
    IF bit_length < MIN_BIT_LENGTH
    THEN {NewOutcome(TRUE, NoResult, Err("BitLength", bit_length))}
    ELSE {NewOutcome(TRUE, r, r) : r \in from_rng(bit_length)}

\* safe_prime::new(bit_length): the set of its possible outcomes.
safe_prime_new(bit_length) ==
    IF bit_length < MIN_BIT_LENGTH
    THEN {NewOutcome(FALSE, NoResult, Err("BitLength", bit_length))}
    ELSE {NewOutcome(TRUE, r, r) : r \in from_rng(bit_length)}

NoSafePrime == [bit_length |-> 0, out |-> NewOutcome(FALSE, NoResult, NoResult)]

call_safe_prime_new ==
    /\ pc = "idle"
    /\ \E bit_length \in 0 .. MaxBitLength :
          \E o \in safe_prime_new(bit_length) :
             sp' = [bit_length |-> bit_length, out |-> o]
    /\ pc' = "done"
    /\ UNCHANGED <<mp, gen, rands, hist, rng_reads>>

\* ------------------------------------------------------- the specification
Init ==
    /\ pc = "idle"
    /\ mp = NoFrame
    /\ gen = NoGen
    /\ rands = NoRandoms
    /\ hist = NoHist
    /\ sp = NoSafePrime
    /\ rng_reads = 0

Next ==
    \/ modpow
    \/ modpow_loop
    \/ modpow_return
    \/ call_gen_biguint_range
    \/ call_gen_biguint_bits
    \/ Randoms_new
    \/ with_appended
    \/ next
    \/ call_safe_prime_new

Spec == Init /\ [][Next]_vars

\* ------------------------------------------------------------ properties
\* x^n mod md by n successive multiplications by x, reduced after each one
\* (the same residue as the power taken over the unbounded integers).
RECURSIVE RefPow(_, _, _)
RefPow(x, n, md) == IF n = 0 THEN 1 % md ELSE (x * RefPow(x, n - 1, md)) % md

\* The reference value of modpow for a modulus above 1.
R(x, e, m) == IF x = 0 THEN 0 ELSE IF e = 0 THEN 1 ELSE RefPow(x, e, m)

ModpowReturned == pc = "done" /\ mp.ret # None

\* C1: for every base, exponent and modulus m > 1, modpow returns the
\* reference value: 0 for x = 0, else 1 for e = 0, else x^e mod m; no
\* intermediate product is truncated by the width.
C1_ModpowEqualsReference ==
    (ModpowReturned /\ mp.m > 1) => mp.ret[1] = R(mp.x, mp.e, mp.m)

\* A returned exponentiation whose squarings overflow the single width.
C1_Witness ==
    /\ ModpowReturned
    /\ mp.m > 1 /\ mp.x < mp.m /\ mp.x * mp.x > UIntMax /\ bits(mp.e) >= 2
    /\ mp.ret[1] = RefPow(mp.x, mp.e, mp.m)
    /\ mp.ret[1] > 1

RangeCalled == gen.op = "gen_biguint_range"
BitsCalled == gen.op = "gen_biguint_bits"

\* C2: for low < high, gen_biguint_range returns v with low <= v < high; the
\* draw is below high - low and adding low to it never saturates.
C2_RangeWithinBounds ==
    (RangeCalled /\ gen.low < gen.high) =>
        /\ gen.out.kind = "ok"
        /\ gen.low <= gen.out.val /\ gen.out.val < gen.high
        /\ gen.out.draw < gen.high - gen.low
        /\ gen.out.val = gen.out.draw + gen.low

\* The largest draw of a range that ends at the largest value.
C2_Witness ==
    /\ RangeCalled /\ gen.out.kind = "ok"
    /\ gen.low > 0 /\ gen.high = UIntMax /\ gen.out.val = gen.high - 1

\* C3: for 1 <= bit_size <= Bits (the full width included), gen_biguint_bits
\* returns a value of bit length exactly bit_size.
C3_ExactBitLength ==
    (BitsCalled /\ 1 <= gen.bit_size /\ gen.bit_size <= Bits) =>
        /\ gen.out.kind = "ok"
        /\ bits(gen.out.val) = gen.bit_size
        /\ is_bit_set(gen.out.val, gen.bit_size - 1)
        /\ Pow2(gen.bit_size - 1) <= gen.out.val
        /\ gen.out.val < Pow2(gen.bit_size)

\* A full-width call, where mask << 1 is zero, whose draw lacks the top bit.
C3_Witness ==
    /\ BitsCalled /\ gen.bit_size = Bits /\ gen.out.kind = "ok"
    /\ shl(shl(1, Bits - 1), 1) = 0
    /\ gen.out.draw < Pow2(Bits - 1)
    /\ gen.out.val = gen.out.draw + Pow2(Bits - 1)

\* The number of draws gen_biguint_bits maps to the value v.
Preimages(bit_size, overflow_checks, v) ==
    Cardinality({o \in gen_biguint_bits(bit_size, overflow_checks) :
                    o.kind = "ok" /\ o.val = v})

\* C4: for every valid bit_size (the full width included) every value with
\* exactly bit_size bits is the image of the same number of draws.
C4_UniformOverExactBitLength ==
    (BitsCalled /\ gen.out.kind = "ok") =>
        \A v \in Pow2(gen.bit_size - 1) .. (Pow2(gen.bit_size) - 1) :
            Preimages(gen.bit_size, gen.overflow_checks, v)
                = Preimages(gen.bit_size, gen.overflow_checks, gen.out.val)

\* The iterator exists (it may have been torn down by a panic inside next).
RandomsBuilt == pc = "randoms" \/ (pc = "panicked" /\ hist.nexts > 0)
\* The iterator was run to exhaustion: next has returned None.
Exhausted == pc = "randoms" /\ hist.none_seen
ValidRange == rands.lower_limit < rands.upper_limit

\* C5: the iterator yields exactly `amount` values, with or without an
\* override; after them next returns None for ever; the remaining count
\* never underflows.
C5_YieldsExactlyAmount ==
    RandomsBuilt =>
        /\ rands.amount >= 0
        /\ Len(hist.out) <= hist.amount0
        /\ pc = "randoms" => Len(hist.out) + rands.amount = hist.amount0
        /\ hist.none_seen => (Len(hist.out) = hist.amount0 /\ rands.amount = 0)
        /\ ValidRange => pc = "randoms"

\* next has returned None after the largest amount, with an override set.
C5_Witness ==
    /\ pc = "randoms" /\ hist.none_seen
    /\ hist.amount0 = MaxAmount /\ Len(hist.out) = MaxAmount
    /\ Len(hist.overrides) >= 1

\* with_appended was called, and only before the first call of next.
AppendedBeforehand == Len(hist.overrides) >= 1 /\ ~hist.late_append

\* new over a non-empty range, with_appended calls, iteration to exhaustion.
OverriddenRun == ValidRange /\ AppendedBeforehand /\ Exhausted

\* The sequence ends with the latest override and holds range draws before it.
EndsWithOverride ==
    LET n == Len(hist.out)
    IN  /\ n >= 1
        /\ hist.out[n] = hist.overrides[Len(hist.overrides)]
        /\ hist.src[n] = "override"
        /\ \A i \in 1 .. (n - 1) :
              /\ hist.src[i] = "draw"
              /\ rands.lower_limit <= hist.out[i]
              /\ hist.out[i] < rands.upper_limit

\* C6 as stated: after with_appended calls and iteration to exhaustion the
\* length is amount, the last element is the latest override, and every
\* element before it is a range draw.
C6_LastIsOverride ==
    OverriddenRun =>
        (Len(hist.out) = hist.amount0 /\ EndsWithOverride)

\* C6 amended: the same for amount >= 1; for amount = 0 the sequence is empty
\* and the override is never emitted.
C6_LastIsOverrideWhenNonEmpty ==
    OverriddenRun =>
        /\ Len(hist.out) = hist.amount0
        /\ hist.amount0 >= 1 => EndsWithOverride
        /\ hist.amount0 = 0 => hist.out = <<>>

\* Two different overrides, the second outside the range, and a full run.
C6_Witness ==
    /\ OverriddenRun
    /\ Len(hist.overrides) = 2 /\ hist.overrides[1] # hist.overrides[2]
    /\ hist.amount0 >= 2 /\ Len(hist.out) = hist.amount0
    /\ hist.overrides[2] >= rands.upper_limit
    /\ hist.out[Len(hist.out)] = hist.overrides[2]

SafePrimeReturned == pc = "done" /\ sp.out.ret # NoResult

\* C7: below MIN_BIT_LENGTH new returns Err(BitLength(bit_length)) without
\* creating or reading the random source and without calling the search; the
\* source is created only from MIN_BIT_LENGTH up, where the result of the
\* search, a failure included, is returned as it is.
C7_BitLengthCheckedFirst ==
    SafePrimeReturned =>
        /\ sp.bit_length < MIN_BIT_LENGTH =>
              /\ sp.out.ret = Err("BitLength", sp.bit_length)
              /\ ~sp.out.rng_created
              /\ ~sp.out.search_called
              /\ rng_reads = 0
        /\ sp.out.rng_created => sp.bit_length >= MIN_BIT_LENGTH
        /\ sp.bit_length >= MIN_BIT_LENGTH =>
              /\ sp.out.rng_created
              /\ sp.out.search_called
              /\ sp.out.ret = sp.out.search_result
              /\ sp.out.search_result.tag = "Err" => sp.out.ret.tag = "Err"

\* The largest rejected length.
C7_Witness ==
    /\ SafePrimeReturned
    /\ sp.bit_length = MIN_BIT_LENGTH - 1
    /\ sp.out.ret = Err("BitLength", MIN_BIT_LENGTH - 1)
    /\ ~sp.out.rng_created

\* C8: an empty range makes gen_biguint_range panic without a draw; a
\* bit_size of 0 or above the width makes gen_biguint_bits panic.
C8_ContractViolationsPanic ==
    /\ (RangeCalled /\ gen.low = gen.high) =>
          (gen.out.kind = "panic" /\ pc = "panicked" /\ rng_reads = 0)
    /\ (BitsCalled /\ (gen.bit_size = 0 \/ gen.bit_size > Bits)) =>
          (gen.out.kind = "panic" /\ pc = "panicked" /\ rng_reads = 0)

\* An empty range above zero has panicked.
C8_Witness ==
    /\ RangeCalled /\ gen.low = gen.high /\ gen.low > 0
    /\ pc = "panicked" /\ gen.out.msg = "Zero range"

\* The loop of modpow has completed the iteration for bit index bit_index - 1.
AfterIteration == pc = "modpow_loop" /\ mp.bit_index >= 1
\* modpow has returned from its loop.
LoopReturned == ModpowReturned /\ mp.x # 0 /\ mp.e # 0

\* After the iteration for bit index k = bit_index - 1.
LoopInvariant ==
    /\ mp.this_power = RefPow(mp.x, Pow2(mp.bit_index), mp.m)
    /\ mp.result = RefPow(mp.x, mp.e % Pow2(mp.bit_index), mp.m)

\* The loop runs bit_length(e) iterations and then returns result.
LoopLength ==
    /\ pc = "modpow_loop" => mp.bit_index <= bits(mp.e)
    /\ LoopReturned => (mp.bit_index = bits(mp.e) /\ mp.ret = Some(mp.result))

\* C9 as stated: for non-zero x, e and m, after the iteration for bit index k
\* this_power = x^(2^(k+1)) mod m and result = x^(e mod 2^(k+1)) mod m; the
\* loop runs bit_length(e) iterations and returns result.
C9_LoopInvariant ==
    /\ AfterIteration => LoopInvariant
    /\ LoopLength

\* C9 amended: the same for a modulus m > 1.
C9_LoopInvariantAboveOne ==
    /\ (AfterIteration /\ mp.m > 1) => LoopInvariant
    /\ LoopLength

\* The last iteration of a full-width exponent with a clear low bit.
C9_Witness ==
    /\ AfterIteration /\ mp.m > 1
    /\ mp.bit_index = Bits /\ mp.e % 2 = 0
    /\ mp.result > 1 /\ mp.this_power > 1

\* C10: the value modpow returns is below the modulus, for every base,
\* exponent (0 included) and non-zero modulus (1 included).
C10_ResultBelowModulus ==
    ModpowReturned => mp.ret[1] < mp.m

====
